---- MODULE Spec2Model ----
(***************************************************************************)
(* Model of the contact directory in src/address_book.py (Field, Phone,    *)
(* Birthday, Record, AddressBook) and of the add command of src/main.py.   *)
(*                                                                         *)
(* Python strings whose characters matter (phones, birthdays) are tuples   *)
(* of one-character strings; names are TLA+ strings.  An optional value    *)
(* (None or an object) is a sequence of length 0 or 1.  A dict is the      *)
(* sequence of its (key, value) entries in insertion order.                *)
(***************************************************************************)
EXTENDS Integers, Sequences, FiniteSets, TLC

VARIABLES book, pre, last, clock

vars == <<book, pre, last, clock>>

(***************************************************************************)
(* Characters and numbers                                                  *)
(***************************************************************************)
DigitSeq == <<"0", "1", "2", "3", "4", "5", "6", "7", "8", "9">>

DigitChars == {DigitSeq[i] : i \in DOMAIN DigitSeq}

DigitVal(c) == (CHOOSE i \in DOMAIN DigitSeq : DigitSeq[i] = c) - 1

DigitChar(n) == DigitSeq[n + 1]

\* str.isdigit(): non-empty and every character a digit.
isdigit(s) == Len(s) > 0 /\ \A i \in DOMAIN s : s[i] \in DigitChars

RECURSIVE ToInt(_)
ToInt(s) == IF Len(s) = 0 THEN 0
            ELSE 10 * ToInt(SubSeq(s, 1, Len(s) - 1)) + DigitVal(s[Len(s)])

(***************************************************************************)
(* datetime.date: proleptic Gregorian calendar                             *)
(***************************************************************************)
MkDate(y, m, d) == [year |-> y, month |-> m, day |-> d]

IsLeap(y) == y % 4 = 0 /\ (y % 100 # 0 \/ y % 400 = 0)

DaysInMonth(y, m) ==
    IF m = 2 THEN (IF IsLeap(y) THEN 29 ELSE 28)
    ELSE IF m \in {4, 6, 9, 11} THEN 30 ELSE 31

IsDate(y, m, d) ==
    y \in 1..9999 /\ m \in 1..12 /\ d >= 1 /\ d <= DaysInMonth(y, m)

DaysBeforeYear(y) ==
    (y - 1) * 365 + (y - 1) \div 4 - (y - 1) \div 100 + (y - 1) \div 400

RECURSIVE DaysBeforeMonth(_, _)
DaysBeforeMonth(y, m) ==
    IF m = 1 THEN 0 ELSE DaysBeforeMonth(y, m - 1) + DaysInMonth(y, m - 1)

\* date.toordinal(): 0001-01-01 is day 1.
toordinal(dt) ==
    DaysBeforeYear(dt.year) + DaysBeforeMonth(dt.year, dt.month) + dt.day

\* date.weekday(): Monday is 0, Sunday is 6.
weekday(dt) == (toordinal(dt) + 6) % 7

\* date < date
DateLT(a, b) ==
    \/ a.year < b.year
    \/ a.year = b.year /\ a.month < b.month
    \/ a.year = b.year /\ a.month = b.month /\ a.day < b.day

DateLE(a, b) == a = b \/ DateLT(a, b)

NextDay(dt) ==
    IF dt.day < DaysInMonth(dt.year, dt.month)
    THEN MkDate(dt.year, dt.month, dt.day + 1)
    ELSE IF dt.month < 12 THEN MkDate(dt.year, dt.month + 1, 1)
    ELSE MkDate(dt.year + 1, 1, 1)

\* date + timedelta(days=n), n >= 0
RECURSIVE AddDays(_, _)
AddDays(dt, n) == IF n = 0 THEN dt ELSE AddDays(NextDay(dt), n - 1)

\* date.replace(year=y): <<>> stands for the ValueError it raises when the
\* day does not exist in year y (29 February of a non-leap year).
ReplaceYear(dt, y) ==
    IF IsDate(y, dt.month, dt.day) THEN <<MkDate(y, dt.month, dt.day)>>
    ELSE <<>>

Pad(n, width) ==
    [i \in 1..width |-> DigitChar((n \div (10 ^ (width - i))) % 10)]

\* date.strftime("%d.%m.%Y")
strftime(dt) ==
    Pad(dt.day, 2) \o <<".">> \o Pad(dt.month, 2) \o <<".">> \o Pad(dt.year, 4)

\* Index of the first occurrence of c in s, 0 when there is none.
FirstIndex(s, c) ==
    IF \E i \in DOMAIN s : s[i] = c
    THEN CHOOSE i \in DOMAIN s : s[i] = c /\ \A j \in 1..(i - 1) : s[j] # c
    ELSE 0

\* %d of strptime: 3[0-1] | [1-2]\d | 0[1-9] | [1-9] | " "[1-9]
DayField(s) ==
    \/ Len(s) = 2 /\ s[1] = "3" /\ s[2] \in {"0", "1"}
    \/ Len(s) = 2 /\ s[1] \in {"1", "2"} /\ s[2] \in DigitChars
    \/ Len(s) = 2 /\ s[1] = "0" /\ s[2] \in DigitChars \ {"0"}
    \/ Len(s) = 1 /\ s[1] \in DigitChars \ {"0"}
    \/ Len(s) = 2 /\ s[1] = " " /\ s[2] \in DigitChars \ {"0"}

\* %m of strptime: 1[0-2] | 0[1-9] | [1-9]
MonthField(s) ==
    \/ Len(s) = 2 /\ s[1] = "1" /\ s[2] \in {"0", "1", "2"}
    \/ Len(s) = 2 /\ s[1] = "0" /\ s[2] \in DigitChars \ {"0"}
    \/ Len(s) = 1 /\ s[1] \in DigitChars \ {"0"}

\* %Y of strptime: \d\d\d\d
YearField(s) == Len(s) = 4 /\ isdigit(s)

DayValue(s) == IF s[1] = " " THEN DigitVal(s[2]) ELSE ToInt(s)

\* datetime.strptime(value, "%d.%m.%Y").date(): <<>> stands for ValueError.
strptime(value) ==
    LET i1   == FirstIndex(value, ".")
        ds   == SubSeq(value, 1, i1 - 1)
        rest == SubSeq(value, i1 + 1, Len(value))
        i2   == FirstIndex(rest, ".")
        ms   == SubSeq(rest, 1, i2 - 1)
        ys   == SubSeq(rest, i2 + 1, Len(rest))
    IN  IF i1 = 0 \/ i2 = 0 THEN <<>>
        ELSE IF ~(DayField(ds) /\ MonthField(ms) /\ YearField(ys)) THEN <<>>
        ELSE IF ~IsDate(ToInt(ys), ToInt(ms), DayValue(ds)) THEN <<>>
        ELSE <<MkDate(ToInt(ys), ToInt(ms), DayValue(ds))>>

(***************************************************************************)
(* Fields                                                                  *)
(***************************************************************************)
PhoneError == "Phone number must contain exactly 10 digits."

BirthdayError == "Invalid date format. Please use DD.MM.YYYY"

NotFoundMessage == "Old phone number not found."

\* Name(name): the class adds nothing to Field, any string is stored.
Name(value) == value

\* Phone(value): obj is the new object's value, <<>> when the constructor
\* raises exc.
Phone(value) ==
    IF ~(isdigit(value) /\ Len(value) = 10)
    THEN [exc |-> "ValueError", msg |-> PhoneError, obj |-> <<>>]
    ELSE [exc |-> "", msg |-> "", obj |-> <<value>>]

\* Birthday(value): the text is stored as given once strptime accepts it.
Birthday(value) ==
    IF strptime(value) = <<>>
    THEN [exc |-> "ValueError", msg |-> BirthdayError, obj |-> <<>>]
    ELSE [exc |-> "", msg |-> "", obj |-> <<value>>]

\* Birthday.to_date()
to_date(value) == strptime(value)[1]

(***************************************************************************)
(* Record: name, phones (values of its Phone objects, in list order),      *)
(* birthday (<<>> for None, else <<text>>).  A method is the pair of the   *)
(* exception it raises ("" for none) and the record it leaves.             *)
(***************************************************************************)
Record(name) == [name |-> Name(name), phones |-> <<>>, birthday |-> <<>>]

Outcome(exc, msg, rec) == [exc |-> exc, msg |-> msg, rec |-> rec]

\* Record.find_phone: position of the first Phone whose value is phone, 0 for
\* None.
find_phone(rec, phone) == FirstIndex(rec.phones, phone)

RemoveAt(s, i) == SubSeq(s, 1, i - 1) \o SubSeq(s, i + 1, Len(s))

\* Variant of add_phone: the value is appended before it is validated.
AddPhoneAppendFirst(rec, phone) ==
    LET p == Phone(phone)
    IN  Outcome(p.exc, p.msg, [rec EXCEPT !.phones = Append(@, phone)])

add_phone(rec, phone) ==
    LET p == Phone(phone)
    IN  IF p.exc # "" THEN Outcome(p.exc, p.msg, rec)
        ELSE Outcome("", "", [rec EXCEPT !.phones = Append(@, p.obj[1])])

remove_phone(rec, phone) ==
    LET found == find_phone(rec, phone)
    IN  IF found # 0
        THEN Outcome("", "", [rec EXCEPT !.phones = RemoveAt(@, found)])
        ELSE Outcome("", "", rec)

\* Variant of edit_phone: the new value is validated before old is looked up.
EditPhoneValidateFirst(rec, old_phone, new_phone) ==
    LET found == find_phone(rec, old_phone)
        p     == Phone(new_phone)
    IN  IF p.exc # "" THEN Outcome(p.exc, p.msg, rec)
        ELSE IF found = 0 THEN Outcome("ValueError", NotFoundMessage, rec)
        ELSE Outcome("", "", [rec EXCEPT !.phones[found] = p.obj[1]])

\* Variant of edit_phone: every occurrence of old is replaced.
EditPhoneReplaceAll(rec, old_phone, new_phone) ==
    LET found == find_phone(rec, old_phone)
        p     == Phone(new_phone)
    IN  IF found = 0 THEN Outcome("ValueError", NotFoundMessage, rec)
        ELSE IF p.exc # "" THEN Outcome(p.exc, p.msg, rec)
        ELSE Outcome("", "",
                     [rec EXCEPT !.phones =
                         [i \in DOMAIN @ |->
                             IF @[i] = old_phone THEN p.obj[1] ELSE @[i]]])

edit_phone(rec, old_phone, new_phone) ==
    LET found == find_phone(rec, old_phone)
        p     == Phone(new_phone)
    IN  IF found = 0 THEN Outcome("ValueError", NotFoundMessage, rec)
        ELSE IF p.exc # "" THEN Outcome(p.exc, p.msg, rec)
        ELSE Outcome("", "", [rec EXCEPT !.phones[found] = p.obj[1]])

add_birthday(rec, birthday) ==
    LET b == Birthday(birthday)
    IN  IF b.exc # "" THEN Outcome(b.exc, b.msg, rec)
        ELSE Outcome("", "", [rec EXCEPT !.birthday = b.obj])

(***************************************************************************)
(* AddressBook: the dict self.data as its entries in insertion order       *)
(***************************************************************************)
Entry(key, rec) == [key |-> key, rec |-> rec]

Keys(data) == {data[i].key : i \in DOMAIN data}

KeyIndex(data, key) ==
    IF key \in Keys(data) THEN CHOOSE i \in DOMAIN data : data[i].key = key
    ELSE 0

\* data[key] = value: an existing key keeps its place, a new one goes last.
DictSet(data, key, value) ==
    IF key \in Keys(data)
    THEN [data EXCEPT ![KeyIndex(data, key)] = Entry(key, value)]
    ELSE Append(data, Entry(key, value))

\* Variant of add_record: the record is appended without looking for its name.
AddRecordAppend(data, record) == Append(data, Entry(record.name, record))

add_record(data, record) == DictSet(data, record.name, record)

\* data.get(name): <<>> for None.
find(data, name) ==
    IF name \in Keys(data) THEN <<data[KeyIndex(data, name)].rec>> ELSE <<>>

\* Variant of delete: the entries stored after name go with it.
DeleteDropsTail(data, name) ==
    IF name \in Keys(data) THEN SubSeq(data, 1, KeyIndex(data, name) - 1)
    ELSE data

\* data.pop(name, None)
delete(data, name) ==
    IF name \in Keys(data) THEN RemoveAt(data, KeyIndex(data, name)) ELSE data

\* Variant of _move_to_monday_if_weekend: Saturday moves one day only.
MoveOneDayOnly(d) ==
    LET wd == weekday(d)
    IN  IF wd = 5 THEN AddDays(d, 1)
        ELSE IF wd = 6 THEN AddDays(d, 1)
        ELSE d

_move_to_monday_if_weekend(d) ==
    LET wd == weekday(d)
    IN  IF wd = 5 THEN AddDays(d, 2)
        ELSE IF wd = 6 THEN AddDays(d, 1)
        ELSE d

\* Variant of _get_congrats_date: 29 February falls back to 1 March in a
\* year that has none.
CongratsDateWithFallback(record, today) ==
    IF record.birthday = <<>> THEN <<>>
    ELSE LET bday  == to_date(record.birthday[1])
             on(y) == IF ReplaceYear(bday, y) = <<>> THEN MkDate(y, 3, 1)
                      ELSE ReplaceYear(bday, y)[1]
         IN  IF DateLT(on(today.year), today)
             THEN <<_move_to_monday_if_weekend(on(today.year + 1))>>
             ELSE <<_move_to_monday_if_weekend(on(today.year))>>

\* <<>> for None.
_get_congrats_date(record, today) ==
    IF record.birthday = <<>> THEN <<>>
    ELSE LET bday == to_date(record.birthday[1])
             this == ReplaceYear(bday, today.year)
             next == ReplaceYear(bday, today.year + 1)
         IN  IF this = <<>> THEN <<>>
             ELSE IF DateLT(this[1], today)
                  THEN (IF next = <<>> THEN <<>>
                        ELSE <<_move_to_monday_if_weekend(next[1])>>)
                  ELSE <<_move_to_monday_if_weekend(this[1])>>

\* Variant of InWindow: the last day of the window is left out.
InWindowSevenDays(congrats, today) ==
    DateLE(today, congrats) /\ DateLT(congrats, AddDays(today, 7))

InWindow(congrats, today) ==
    DateLE(today, congrats) /\ DateLE(congrats, AddDays(today, 7))

RECURSIVE UpcomingFrom(_, _, _)
UpcomingFrom(data, today, i) ==
    IF i > Len(data) THEN <<>>
    ELSE LET record   == data[i].rec
             congrats == _get_congrats_date(record, today)
             rest     == UpcomingFrom(data, today, i + 1)
         IN  IF congrats = <<>> THEN rest
             ELSE IF InWindow(congrats[1], today)
                  THEN <<[name |-> record.name,
                          birthday |-> strftime(congrats[1])]>> \o rest
                  ELSE rest

get_upcoming_birthdays(data, today) == UpcomingFrom(data, today, 1)

(***************************************************************************)
(* The add command of the dispatcher (main.py).  input_error turns the     *)
(* ValueError of add_phone into the returned message.                      *)
(***************************************************************************)
add_contact(data, name, phone) ==
    LET record == find(data, name)
        data1  == IF record = <<>> THEN add_record(data, Record(name))
                  ELSE data
        target == find(data1, name)[1]
        out    == add_phone(target, phone)
    IN  IF out.exc = "ValueError"
        THEN [msg |-> out.msg, data |-> data1]
        ELSE [msg  |-> "Contact added",
              data |-> [data1 EXCEPT ![KeyIndex(data1, name)].rec = out.rec]]

(***************************************************************************)
(* Inputs and bounds                                                       *)
(***************************************************************************)
MaxPhones == 3

MaxBookPhones == 1

Names == {"", "Alice", "Bob"}

P1 == <<"1", "2", "3", "4", "5", "6", "7", "8", "9", "0">>

P2 == <<"0", "9", "8", "7", "6", "5", "4", "3", "2", "1">>

Short5 == <<"1", "2", "3", "4", "5">>

Long11 == P1 \o <<"1">>

Alpha10 == <<"1", "2", "3", "4", "5", "a", "b", "c", "d", "e">>

PhoneInputs == {P1, P2, Short5, Long11, Alpha10, <<>>}

B15 == <<"1", "5", ".", "0", "3", ".", "1", "9", "9", "0">>

B16 == <<"1", "6", ".", "0", "3", ".", "1", "9", "9", "0">>

B29 == <<"2", "9", ".", "0", "2", ".", "2", "0", "0", "0">>

\* accepted by strptime: day and month without the leading zero
Unpadded == <<"5", ".", "3", ".", "1", "9", "9", "0">>

\* accepted by strptime: a blank in place of the day's leading zero
BlankDay == <<" ", "5", ".", "0", "3", ".", "1", "9", "9", "0">>

Feb30 == <<"3", "0", ".", "0", "2", ".", "1", "9", "9", "0">>

Feb29NonLeap == <<"2", "9", ".", "0", "2", ".", "1", "9", "0", "0">>

IsoText == <<"1", "9", "9", "0", "-", "0", "3", "-", "1", "5">>

ShortYear == <<"1", "5", ".", "0", "3", ".", "9", "0">>

Month13 == <<"1", "5", ".", "1", "3", ".", "1", "9", "9", "0">>

BirthdayInputs ==
    {B15, B29, Unpadded, BlankDay, Feb30, Feb29NonLeap, IsoText, ShortYear,
     Month13, <<>>}

Op(op, name, a1, a2, exc, msg, ret) ==
    [op |-> op, name |-> name, a1 |-> a1, a2 |-> a2,
     exc |-> exc, msg |-> msg, ret |-> ret]

NoOp == Op("init", "", <<>>, <<>>, "", "", <<>>)

(***************************************************************************)
(* Actions: pre is the book before the step, last the call and its result, *)
(* clock the date the system clock shows (date.today())                    *)
(***************************************************************************)
Init ==
    /\ book = <<>>
    /\ pre = <<>>
    /\ last = NoOp
    /\ clock = MkDate(2024, 3, 10)

\* Record(name) (optionally given a phone before it is stored), then
\* book.add_record(record)
AddRecord(record) ==
    /\ book' = add_record(book, record)
    /\ pre' = book
    /\ last' = Op("add_record", record.name, <<>>, <<>>, "", "", <<>>)
    /\ UNCHANGED clock

Find(name) ==
    /\ book' = book
    /\ pre' = book
    /\ last' = Op("find", name, <<>>, <<>>, "", "", find(book, name))
    /\ UNCHANGED clock

Delete(name) ==
    /\ book' = delete(book, name)
    /\ pre' = book
    /\ last' = Op("delete", name, <<>>, <<>>, "", "", <<>>)
    /\ UNCHANGED clock

\* A method of the record stored under name: the record is mutated in place.
Mutate(op, name, a1, a2, out) ==
    /\ book' = [book EXCEPT ![KeyIndex(book, name)].rec = out.rec]
    /\ pre' = book
    /\ last' = Op(op, name, a1, a2, out.exc, out.msg, <<>>)
    /\ UNCHANGED clock

AddPhone(name, phone) ==
    /\ name \in Keys(book)
    /\ Mutate("add_phone", name, phone, <<>>,
              add_phone(find(book, name)[1], phone))

RemovePhone(name, phone) ==
    /\ name \in Keys(book)
    /\ Mutate("remove_phone", name, phone, <<>>,
              remove_phone(find(book, name)[1], phone))

EditPhone(name, old_phone, new_phone) ==
    /\ name \in Keys(book)
    /\ Mutate("edit_phone", name, old_phone, new_phone,
              edit_phone(find(book, name)[1], old_phone, new_phone))

AddBirthday(name, birthday) ==
    /\ name \in Keys(book)
    /\ Mutate("add_birthday", name, birthday, <<>>,
              add_birthday(find(book, name)[1], birthday))

GetUpcomingBirthdays ==
    /\ book' = book
    /\ pre' = book
    /\ last' = Op("get_upcoming_birthdays", "", <<>>, <<>>, "", "",
                  get_upcoming_birthdays(book, clock))
    /\ UNCHANGED clock

AddContact(name, phone) ==
    \E out \in {add_contact(book, name, phone)} :
        /\ book' = out.data
        /\ pre' = book
        /\ last' = Op("add_contact", name, phone, <<>>, "", out.msg, <<>>)
        /\ UNCHANGED clock

\* No phone list grows beyond max: the step appends nothing, or there is room.
Room(name, phone, max) ==
    (Phone(phone).exc = "" /\ name \in Keys(book))
        => Len(find(book, name)[1].phones) < max

(***************************************************************************)
(* Spec: the whole book, every operation, few values                       *)
(***************************************************************************)
RecordInputs ==
    {Record(n) : n \in Names} \cup {add_phone(Record(n), P1).rec : n \in Names}

BookPhones == {P1, Short5}

BookBirthdays == {B15, Feb30}

\* the tokens parse_input passes on are never empty
Tokens == Names \ {""}

Next ==
    \/ \E r \in RecordInputs : AddRecord(r)
    \/ \E n \in Names : Find(n)
    \/ \E n \in Names : Delete(n)
    \/ \E n \in Names, p \in BookPhones :
          Room(n, p, MaxBookPhones) /\ AddPhone(n, p)
    \/ \E n \in Names, p \in BookPhones : RemovePhone(n, p)
    \/ \E n \in Names, p \in BookPhones, q \in BookPhones : EditPhone(n, p, q)
    \/ \E n \in Names, b \in BookBirthdays : AddBirthday(n, b)
    \/ GetUpcomingBirthdays
    \/ \E n \in Tokens, p \in BookPhones :
          Room(n, p, MaxBookPhones) /\ AddContact(n, p)

Spec == Init /\ [][Next]_vars

(***************************************************************************)
(* SpecRecord: one stored record, every Record method, many values         *)
(***************************************************************************)
InitRecord ==
    /\ book = <<Entry("Alice", Record("Alice"))>>
    /\ pre = book
    /\ last = NoOp
    /\ clock = MkDate(2024, 3, 10)

NextRecord ==
    \/ \E p \in PhoneInputs :
          Room("Alice", p, MaxPhones) /\ AddPhone("Alice", p)
    \/ \E p \in PhoneInputs : RemovePhone("Alice", p)
    \/ \E p \in PhoneInputs, q \in PhoneInputs : EditPhone("Alice", p, q)
    \/ \E b \in BirthdayInputs : AddBirthday("Alice", b)

SpecRecord == InitRecord /\ [][NextRecord]_vars

(***************************************************************************)
(* SpecBirthdays: get_upcoming_birthdays on every day of two years          *)
(***************************************************************************)
Dates(years, months) ==
    {dt \in {MkDate(y, m, d) : y \in years, m \in months, d \in 1..31} :
        IsDate(dt.year, dt.month, dt.day)}

Todays == Dates(2023..2024, 1..12)

Birthdays == {strftime(dt) : dt \in Dates({2000}, {1, 2, 3, 12})}

WithBirthday(name, text) == add_birthday(Record(name), text).rec

BirthdayBooks ==
    {<<Entry("Alice", WithBirthday("Alice", b))>> : b \in Birthdays}
    \cup {<<Entry("Alice", WithBirthday("Alice", b)),
            Entry("Bob", WithBirthday("Bob", c))>> :
              b \in {B15, Unpadded}, c \in {B16, B29}}
    \cup {<<Entry("Bob", Record("Bob")),
            Entry("Alice", WithBirthday("Alice", B29))>>}

InitBirthdays ==
    /\ book \in BirthdayBooks
    /\ pre = book
    /\ last = NoOp
    /\ clock \in Todays

NextBirthdays == GetUpcomingBirthdays

SpecBirthdays == InitBirthdays /\ [][NextBirthdays]_vars

(***************************************************************************)
(* Properties.  What a property expects is written from the calendar       *)
(* (ordinal day numbers) and from the shape of the texts, not from the     *)
(* operators above.                                                        *)
(***************************************************************************)
Called(op) == last.op = op

PreRec == find(pre, last.name)[1]

PostRec == find(book, last.name)[1]

Listed(name) == \E j \in DOMAIN last.ret : last.ret[j].name = name

Ord(y, m, d) == toordinal(MkDate(y, m, d))

\* The day exists in year y: only 29 February can be missing.
ExistsIn(y, m, d) == ~(m = 2 /\ d = 29 /\ ~IsLeap(y))

ShiftOrd(o) ==
    LET wd == (o + 6) % 7
    IN  IF wd = 5 THEN o + 2 ELSE IF wd = 6 THEN o + 1 ELSE o

\* Ordinal of the unshifted candidate of birthday (m, d) on day t, <<>> when
\* there is none.
CandidateOrd(m, d, t) ==
    IF ~ExistsIn(t.year, m, d) THEN <<>>
    ELSE IF Ord(t.year, m, d) >= toordinal(t) THEN <<Ord(t.year, m, d)>>
    ELSE IF ExistsIn(t.year + 1, m, d) THEN <<Ord(t.year + 1, m, d)>>
    ELSE <<>>

\* Ordinal of the congratulation date of rec on day t, <<>> when rec has no
\* birthday, no candidate, or a shifted date outside [t, t + 7].
ExpectedOrd(rec, t) ==
    IF rec.birthday = <<>> THEN <<>>
    ELSE LET b == to_date(rec.birthday[1])
             c == CandidateOrd(b.month, b.day, t)
         IN  IF c = <<>> THEN <<>>
             ELSE IF toordinal(t) <= ShiftOrd(c[1])
                     /\ ShiftOrd(c[1]) <= toordinal(t) + 7
                  THEN <<ShiftOrd(c[1])>>
                  ELSE <<>>

HasBirthdayOn(rec, m, d) ==
    /\ rec.birthday # <<>>
    /\ to_date(rec.birthday[1]).month = m
    /\ to_date(rec.birthday[1]).day = d

Text15032024 == <<"1", "5", ".", "0", "3", ".", "2", "0", "2", "4">>

\* C1: get_upcoming_birthdays lists a record exactly when it has a birthday,
\* its congratulation date (month and day put on today's year, or on the next
\* year when that is before today, then moved off the weekend) exists and
\* lies in [today, today + 7]; it lists it once, with that date.  On
\* 2024-03-10 a birthday of 16.03 is not listed and one of 15.03 is listed
\* as 15.03.2024.
C1_UpcomingExactlyWindow ==
    Called("get_upcoming_birthdays") =>
        /\ \A i \in DOMAIN book :
              Listed(book[i].rec.name)
                  <=> ExpectedOrd(book[i].rec, clock) # <<>>
        /\ \A j \in DOMAIN last.ret :
              \E i \in DOMAIN book :
                  /\ book[i].rec.name = last.ret[j].name
                  /\ ExpectedOrd(book[i].rec, clock) # <<>>
                  /\ strptime(last.ret[j].birthday) # <<>>
                  /\ toordinal(strptime(last.ret[j].birthday)[1])
                         = ExpectedOrd(book[i].rec, clock)[1]
        /\ \A j, k \in DOMAIN last.ret :
              last.ret[j].name = last.ret[k].name => j = k
        /\ clock = MkDate(2024, 3, 10) =>
              \A i \in DOMAIN book :
                  /\ HasBirthdayOn(book[i].rec, 3, 16)
                        => ~Listed(book[i].rec.name)
                  /\ HasBirthdayOn(book[i].rec, 3, 15)
                        => \E j \in DOMAIN last.ret :
                              last.ret[j] = [name |-> book[i].rec.name,
                                             birthday |-> Text15032024]

\* On 2024-03-10, with birthdays 15.03 and 16.03 stored, the call returned
\* the first one only.
C1_Witness ==
    /\ Called("get_upcoming_birthdays")
    /\ clock = MkDate(2024, 3, 10)
    /\ \E i \in DOMAIN book : HasBirthdayOn(book[i].rec, 3, 15)
    /\ \E i \in DOMAIN book : HasBirthdayOn(book[i].rec, 3, 16)
    /\ Len(last.ret) = 1
    /\ last.ret[1].birthday = Text15032024

\* The record a returned entry is about.
EntryRec(j) ==
    book[CHOOSE i \in DOMAIN book : book[i].rec.name = last.ret[j].name].rec

\* Date dt is k days after an occurrence of month m, day d.
After(dt, k, m, d) ==
    \E y \in {dt.year - 1, dt.year} :
        IsDate(y, m, d) /\ Ord(y, m, d) + k = toordinal(dt)

\* C2: the weekend shift moves a Saturday 2 days on, a Sunday 1 day on and
\* leaves Monday to Friday alone; so no returned date is a Saturday or a
\* Sunday, and each is the reprojected birthday itself or the Monday 1 or 2
\* days after it.
C2_WeekendShift ==
    /\ toordinal(_move_to_monday_if_weekend(clock)) = ShiftOrd(toordinal(clock))
    /\ Called("get_upcoming_birthdays") =>
          \A j \in DOMAIN last.ret :
              LET dt == strptime(last.ret[j].birthday)[1]
                  b  == to_date(EntryRec(j).birthday[1])
              IN  /\ weekday(dt) \notin {5, 6}
                  /\ \/ After(dt, 0, b.month, b.day)
                     \/ weekday(dt) = 0 /\ After(dt, 1, b.month, b.day)
                     \/ weekday(dt) = 0 /\ After(dt, 2, b.month, b.day)

\* A returned date is the Monday two days after a birthday that falls on a
\* Saturday.
C2_Witness ==
    /\ Called("get_upcoming_birthdays")
    /\ \E j \in DOMAIN last.ret :
          LET dt == strptime(last.ret[j].birthday)[1]
              b  == to_date(EntryRec(j).birthday[1])
          IN  /\ weekday(dt) = 0
              /\ After(dt, 2, b.month, b.day)
              /\ ~After(dt, 0, b.month, b.day)

\* February 29 of today's year exists and is not before today.
LeapDayAhead(t) == IsLeap(t.year) /\ toordinal(t) <= Ord(t.year, 2, 29)

\* C3: a record born on 29 February is skipped, with no substitute date,
\* whenever today's year is not a leap year and whenever 29 February of
\* today's leap year is before today; it can be listed only when today's year
\* is a leap year and its 29 February is today or later.
C3_LeapDaySkipped ==
    Called("get_upcoming_birthdays") =>
        \A i \in DOMAIN book :
            HasBirthdayOn(book[i].rec, 2, 29) =>
                /\ ~LeapDayAhead(clock) => ~Listed(book[i].rec.name)
                /\ ~LeapDayAhead(clock)
                      => _get_congrats_date(book[i].rec, clock) = <<>>

\* In a year without 29 February, with 28 February and 1 March both inside
\* the window, the record born on 29 February was not listed.
C3_Witness ==
    /\ Called("get_upcoming_birthdays")
    /\ ~IsLeap(clock.year)
    /\ toordinal(clock) <= Ord(clock.year, 2, 28)
    /\ Ord(clock.year, 3, 1) <= toordinal(clock) + 7
    /\ \E i \in DOMAIN book : HasBirthdayOn(book[i].rec, 2, 29)
    /\ last.ret = <<>>

\* Exactly 10 decimal digits.
TenDigits(v) == v \in [1..10 -> DigitChars]

\* v is the text of a real date as day.month.year: a day of one or two
\* characters (two digits, one digit, or a blank and a digit), a month of one
\* or two digits, a year of four digits, naming a day that exists.
RealDateText(v) ==
    LET dots == {i \in DOMAIN v : v[i] = "."}
        i1   == CHOOSE i \in dots : \A j \in dots : i <= j
        i2   == CHOOSE i \in dots : \A j \in dots : i >= j
        dd   == SubSeq(v, 1, i1 - 1)
        mm   == SubSeq(v, i1 + 1, i2 - 1)
        yyyy == SubSeq(v, i2 + 1, Len(v))
        dnum == IF dd[1] = " " THEN SubSeq(dd, 2, 2) ELSE dd
    IN  /\ Cardinality(dots) = 2
        /\ Len(dd) \in {1, 2} /\ Len(mm) \in {1, 2} /\ Len(yyyy) = 4
        /\ \A i \in DOMAIN dnum : dnum[i] \in DigitChars
        /\ \A i \in DOMAIN mm : mm[i] \in DigitChars
        /\ \A i \in DOMAIN yyyy : yyyy[i] \in DigitChars
        /\ Len(dnum) >= 1
        /\ IsDate(ToInt(yyyy), ToInt(mm), ToInt(dnum))

Contains(seq, x) == \E i \in DOMAIN seq : seq[i] = x

ValidationKind == Phone(Short5).exc

C6_EditReplacesFirst ==
    (Called("edit_phone") /\ Contains(PreRec.phones, last.a1)
        /\ TenDigits(last.a2)) =>
        LET old == PreRec.phones
            new == PostRec.phones
            k   == CHOOSE i \in DOMAIN old :
                       /\ old[i] = last.a1
                       /\ \A j \in 1..(i - 1) : old[j] # last.a1
        IN  /\ last.exc = ""
            /\ Len(new) = Len(old)
            /\ new[k] = last.a2
            /\ \A i \in DOMAIN old : i # k => new[i] = old[i]
            /\ PostRec.birthday = PreRec.birthday
            /\ PostRec.name = PreRec.name

\* edit_phone replaced the first of two occurrences of old, which was not at
\* the head of the list.
C6_Witness ==
    /\ Called("edit_phone")
    /\ last.a1 = P1 /\ last.a2 = P2
    /\ PreRec.phones = <<P2, P1, P1>>
    /\ PostRec.phones = <<P2, P2, P1>>

\* C7: every key of the book maps to a record of that name, and no two
\* entries have the same key.
C7_KeysAreNames ==
    /\ \A i \in DOMAIN book : book[i].key = book[i].rec.name
    /\ \A i, j \in DOMAIN book : book[i].key = book[j].key => i = j

\* add_record stored a record under a name the book already held, beside
\* other records.
C7_Witness ==
    /\ Called("add_record")
    /\ last.name \in Keys(pre)
    /\ find(pre, last.name) # find(book, last.name)
    /\ Len(book) >= 2

\* C8: delete never fails; it removes the entry of name only and leaves
\* every other entry as it was, or leaves the whole book as it was when name
\* is no key; deleting the same name again changes nothing.
C8_DeleteRemovesOnlyName ==
    Called("delete") =>
        /\ last.exc = ""
        /\ Keys(book) = Keys(pre) \ {last.name}
        /\ Len(book) = Cardinality(Keys(book))
        /\ \A k \in Keys(book) : find(book, k) = find(pre, k)
        /\ book = SelectSeq(pre, LAMBDA e : e.key # last.name)
        /\ last.name \notin Keys(pre) => book = pre
        /\ delete(book, last.name) = book

\* delete removed one of three entries; the two that stay hold a phone or a
\* birthday.
C8_Witness ==
    /\ Called("delete")
    /\ last.name \in Keys(pre)
    /\ Len(pre) = 3
    /\ \E i \in DOMAIN book : book[i].rec.phones # <<>>
    /\ \E i \in DOMAIN book : book[i].rec.birthday # <<>>

\* C9: creating a Record with an empty name fails and produces no record, so
\* no record and no key of the book is the empty string.
C9_NoEmptyName ==
    \A i \in DOMAIN book : book[i].key # "" /\ book[i].rec.name # ""

\* C10: add_contact with a phone that is not 10 digits reports the error and
\* changes nothing: for a new name the book keeps its set of names and gains
\* no phone-less record; for a stored name the phones stay as they were.
C10_AddContactAllOrNothing ==
    (Called("add_contact") /\ ~TenDigits(last.a1)) =>
        /\ last.msg = PhoneError
        /\ Keys(book) = Keys(pre)
        /\ last.name \notin Keys(pre) => find(book, last.name) = <<>>
        /\ last.name \in Keys(pre)
              => PostRec.phones = PreRec.phones

====
